---- MODULE Spec2Model ----
(***************************************************************************)
(* A model of notion2wechat: the retry helper (utils), the media relay,    *)
(* the block renderer, the block tree fetch getAllBlocks, the              *)
(* synchronisation loop initSync and the manual trigger POST /sync.        *)
(*                                                                         *)
(* The repository holds several revisions of sync.js side by side          *)
(* (src/sync.js and src/unnamed/part_00x).  src/sync.js is the module that *)
(* src/index.js loads; the other revisions are modelled where a property   *)
(* is about them, under the name of the function with the revision as a    *)
(* suffix.                                                                 *)
(***************************************************************************)
EXTENDS Integers, Sequences, FiniteSets, TLC

VARIABLES
  \* ---- retry(fn, times, delay), src/unnamed/part_008:15-23
  times,        \* the parameter `times` of the current activation (a JS value)
  delay,        \* the parameter `delay` of the current activation (ms)
  policy,       \* the policy object the call site passed as 2nd argument, or NoPolicy
  rpc,          \* "call" | "caught" | "sleeping" | "returned" | "rejected"
  calls,        \* how many times fn has been invoked
  sleeps,       \* the setTimeout durations so far, in order
  lastErr,      \* the attempt whose error is in `err` (0: none)
  result,       \* the attempt whose value was returned / whose error was thrown
  \* ---- history of the call (not program state)
  args          \* `times` and `delay` of the outermost activation

retryVars == <<times, delay, policy, rpc, calls, sleeps, lastErr, result, args>>

VARIABLES
  \* ---- the source database (Notion), as initSync of src/sync.js sees it
  title,          \* title[d]: "text" | "empty" | "none" (no title/name property)
  synced,         \* synced[d]: the checkpoint checkbox of document d
  \* ---- initSync(), src/sync.js:352-516
  pc,             \* where the run is
  run,            \* number of the current run of initSync (0: none started)
  processedCount, \* line 353
  startCursor,    \* line 354 (0 stands for undefined / null)
  hasMore,        \* line 355
  results,        \* response.results of the page being processed
  idx,            \* position of `page` in results (for ... of, line 403)
  stimes,         \* `times` inside the retry of the remote call in progress
  fails,          \* consecutive failed attempts of the remote call in progress
  asleep,         \* the retry of the remote call in progress is in its setTimeout
  \* ---- history of the current run (not program state)
  queries,        \* start_cursor of every databases.query issued
  answers,        \* the response to each of them
  visited,        \* the documents the for loop has taken up, in order
  published,      \* documents whose publishArticle has returned
  updateIssued,   \* documents for which pages.update has been called
  checkpointed,   \* documents whose pages.update has succeeded
  processedBefore,\* documents processed (counted) by earlier, completed runs
  finished,       \* documents whose turn in the for loop has ended
  steps,          \* the steps completed for the document taken up last, in order
  delayed,        \* documents after whose turn the delay of lines 493-495 was awaited
  errCode         \* result.errCode of the publish answer for that document (0: none)

syncVars == <<title, synced, pc, run, processedCount, startCursor, hasMore,
              results, idx, stimes, fails, asleep, queries, answers, visited,
              published, updateIssued, checkpointed, processedBefore,
              finished, steps, errCode, delayed>>

VARIABLES
  \* ---- the media relay: uploadMedia / downloadMedia (src/unnamed/part_002:30-137)
  \*      and uploadImage (src/sync.js:206-237)
  fn,           \* the relay function called: "uploadMedia" | "uploadImage" | "none"
  mpc,          \* where the call is
  mtimes,       \* `times` inside the retry in progress
  mfails,       \* consecutive failed attempts of the retry in progress
  promise,      \* the promise of downloadMedia lines 47-68: "pending" | "resolved" | "rejected"
  streamOpen,   \* response.data has not yet emitted end or error
  nchunks,      \* chunks.length (line 49)
  totalLength,  \* line 50
  buffer,       \* length of the buffer the download handed to the relay (0: none)
  mresult,      \* "none" | "fileID" | "fallback" | "error"
  \* ---- history of the call (not program state)
  downloads,    \* download requests issued
  uploads,      \* cloud.uploadFile calls issued
  oversize,     \* consecutive download attempts that received more than Ceiling bytes
  validation    \* "none" | "rejected": lines 213-218 of uploadImage have thrown

mediaVars == <<fn, mpc, mtimes, mfails, promise, streamOpen, nchunks, totalLength,
               buffer, mresult, downloads, uploads, oversize, validation>>

VARIABLES
  \* ---- the renderer: convertContent / blockToHtml / richTextToHtml
  \*      (src/unnamed/part_006:121-270, src/unnamed/part_001:107-221)
  blocks,       \* the argument of convertContent
  cpc,          \* "input" | "done" | "published" | "skipped"
  html,         \* what convertContent of part_006 returns, as a sequence of tokens
  htmlP1,       \* what convertContent of part_001 returns
  htmlP2,       \* what convertContent of part_002:408-441 returns
  threw,        \* the revisions whose convertContent rejected
  richText,     \* the argument of richTextToHtml
  tpc,          \* "input" | "done"
  content       \* what richTextToHtml returns

renderVars == <<blocks, cpc, html, htmlP1, htmlP2, threw>>
textVars == <<richText, tpc, content>>

VARIABLES
  \* ---- the handler of POST /sync, src/index.js:19-27
  hpc,          \* "idle" | "awaiting" (line 21) | "answered"
  res           \* the response sent: status and body

httpVars == <<hpc, res>>

VARIABLES
  \* ---- getAllBlocks(blockId), src/sync.js:306-349; one activation per block
  tree,         \* tree[n]: the children of block n at the source, in order
  gpc,          \* gpc[n]: "none" | "listing" | "joining" | "returned" | "rejected"
  allBlocks,    \* allBlocks[n]: line 307, the blocks listed so far under n
  gfails,       \* gfails[n]: consecutive failed attempts of the listing call of n
  children,     \* children[n]: block.children of block n (line 333), once set
  completed,    \* the blocks whose getAllBlocks has returned, in that order
  glog          \* glog[n]: the pages answered and the suspensions of getAllBlocks(n)

treeVars == <<tree, gpc, allBlocks, gfails, children, completed, glog>>

VARIABLES
  \* ---- convertContent(blocks), src/sync.js:240-258
  imgHtml,      \* html (line 242), as a sequence of tokens
  matches,      \* line 246: the captured src of every <img> of the converted text
  mi,           \* the position of the for ... of loop of line 248 in matches
  ipc,          \* "idle" | "called" | "loop" | "returned"
  ifails        \* consecutive failed attempts of the running uploadImage call

imageVars == <<imgHtml, matches, mi, ipc, ifails>>

VARIABLES
  \* ---- the page loop of initSync in the revisions src/unnamed/part_001:238-295
  \*      and src/unnamed/part_003:102-142
  rev,          \* the revision that runs: "part_001" | "part_003" | "none"
  vtitle,       \* vtitle[d]: "text" | "empty" | "none" (no title property)
  vpc,          \* "idle" | "doc" | the remote call in progress | "done"
  vidx,         \* position of `page` in the results
  vcount,       \* processedCount (part_003:77); documents logged as processed
  vfails,       \* consecutive failed attempts of the remote call in progress
  \* ---- history of the run (not program state)
  vcalls        \* the remote calls that have succeeded: <<document, call>>, in order

revVars == <<rev, vtitle, vpc, vidx, vcount, vfails, vcalls>>

VARIABLES
  \* ---- the server, src/index.js:19-43: the schedule, the manual trigger and
  \*      the runs of initSync they start, which share the source
  timer,        \* "start" (app.listen, line 40) | "armed" (line 35) | "fired" | "unset"
  kpc,          \* kpc[r]: "free" | "query" | "publish" | "update", the run in slot r
  rorigin,      \* rorigin[r]: "schedule" | "manual" | "none"
  rdoc,         \* rdoc[r]: `page` of the for loop of the run (0: none)
  rlist,        \* rlist[r]: the listed documents the loop has not yet taken
  rfailed,      \* rfailed[r]: the update call of the run has failed and is retried
  ksynced,      \* ksynced[d]: the checkpoint checkbox of document d at the source
  pubs          \* pubs[d]: how many times d has been published (up to MaxPubs)

schedVars == <<timer, kpc, rorigin, rdoc, rlist, rfailed, ksynced, pubs>>

vars == <<retryVars, syncVars, mediaVars, renderVars, textVars, httpVars, treeVars, imageVars, revVars, schedVars>>

\* the state outside each component
outsideRetry == <<syncVars, mediaVars, renderVars, textVars, httpVars, treeVars, imageVars, revVars, schedVars>>
outsideSync == <<retryVars, mediaVars, renderVars, textVars, httpVars, treeVars, imageVars, revVars, schedVars>>
outsideMedia == <<retryVars, syncVars, renderVars, textVars, httpVars, treeVars, imageVars, revVars, schedVars>>
outsideRender == <<retryVars, syncVars, mediaVars, textVars, httpVars, treeVars, imageVars, revVars, schedVars>>
outsideText == <<retryVars, syncVars, mediaVars, renderVars, httpVars, treeVars, imageVars, revVars, schedVars>>
outsideHttp == <<retryVars, mediaVars, renderVars, textVars, treeVars, imageVars, revVars, schedVars>>
outsideTree == <<retryVars, syncVars, mediaVars, renderVars, textVars, httpVars, imageVars, revVars, schedVars>>
outsideImages == <<retryVars, syncVars, mediaVars, renderVars, textVars, httpVars, treeVars, revVars, schedVars>>
outsideRevs == <<retryVars, syncVars, mediaVars, renderVars, textVars, httpVars, treeVars, imageVars, schedVars>>
outsideSched == <<retryVars, syncVars, mediaVars, renderVars, textVars, httpVars, treeVars, imageVars, revVars>>

(***************************************************************************)
(* JavaScript values of `times`: a number, an object, or NaN.              *)
(***************************************************************************)
Num(n) == [t |-> "num", v |-> n]
Obj == [t |-> "obj", v |-> 0]
NaN == [t |-> "nan", v |-> 0]

\* times === 0 : strict equality, true only of the number 0
StrictEqZero(x) == x.t = "num" /\ x.v = 0

\* a changed MinusOne: the count of attempts left is not decremented
MinusOneStuck(x) == x

\* times - 1 : ToNumber of an object is NaN, and NaN - 1 is NaN
MinusOne(x) == IF x.t = "num" THEN Num(x.v - 1) ELSE NaN

(***************************************************************************)
(* The policy objects the call sites pass to retry.                        *)
(***************************************************************************)
NoPolicy == [retries |-> 0, minTimeout |-> 0, maxTimeout |-> 0, factor |-> 0]

\* src/unnamed/part_003:6-14 and config.notion.retryConfig, part_000:4-9
retryConfig == [retries |-> 5, minTimeout |-> 3000, maxTimeout |-> 15000, factor |-> 2]

\* config.wechat.retryConfig, src/unnamed/part_000:13-18; also the publish
\* call of part_003:115-118 ({...retryConfig, retries: 7})
wechatRetryConfig == [retries |-> 7, minTimeout |-> 3000, maxTimeout |-> 15000, factor |-> 2]

Policies == {retryConfig, wechatRetryConfig}

DefaultTimes == 3
DefaultDelay == 1000

\* bounds of the model
MaxCalls == 10
MaxTimes == 3

Delays == {DefaultDelay, 500}

(***************************************************************************)
(* retry(fn, times = 3, delay = 1000)                                      *)
(***************************************************************************)
\* a call site passing a policy object: retry(fn, policy); delay is defaulted
InitRetryPolicy ==
  \E p \in Policies :
    /\ times = Obj
    /\ policy = p
    /\ delay = DefaultDelay

\* a call site passing numbers, or nothing: retry(fn), retry(fn, t, d)
InitRetryNumeric ==
  /\ policy = NoPolicy
  /\ \/ times = Num(DefaultTimes) /\ delay = DefaultDelay
     \/ \E t \in 0..MaxTimes, d \in Delays : times = Num(t) /\ delay = d

InitRetry ==
  /\ InitRetryPolicy \/ InitRetryNumeric
  /\ args = [times |-> times, delay |-> delay]
  /\ rpc = "call"
  /\ calls = 0
  /\ sleeps = <<>>
  /\ lastErr = 0
  /\ result = 0

\* a changed FnSucceeds: the backoff sleep is taken after a success too
FnSucceedsAfterSleep ==
  /\ rpc = "call"
  /\ calls < MaxCalls
  /\ calls' = calls + 1
  /\ result' = calls + 1
  /\ sleeps' = Append(sleeps, delay)
  /\ rpc' = "returned"
  /\ UNCHANGED <<times, delay, policy, lastErr, args>>

\* line 17: return await fn()   -- fn fulfils
FnSucceeds ==
  /\ rpc = "call"
  /\ calls < MaxCalls
  /\ calls' = calls + 1
  /\ result' = calls + 1
  /\ rpc' = "returned"
  /\ UNCHANGED <<times, delay, policy, sleeps, lastErr, args>>

\* line 17-18: fn rejects (or throws), control enters the catch clause
FnFails ==
  /\ rpc = "call"
  /\ calls < MaxCalls
  /\ calls' = calls + 1
  /\ lastErr' = calls + 1
  /\ rpc' = "caught"
  /\ UNCHANGED <<times, delay, policy, sleeps, result, args>>

\* line 19: if (times === 0) throw err
RetryThrow ==
  /\ rpc = "caught"
  /\ StrictEqZero(times)
  /\ result' = lastErr
  /\ rpc' = "rejected"
  /\ UNCHANGED <<times, delay, policy, calls, sleeps, lastErr, args>>

\* line 20: await new Promise(r => setTimeout(r, delay))
RetrySleep ==
  /\ rpc = "caught"
  /\ ~StrictEqZero(times)
  /\ sleeps' = Append(sleeps, delay)
  /\ rpc' = "sleeping"
  /\ UNCHANGED <<times, delay, policy, calls, lastErr, result, args>>

\* line 21: return retry(fn, times - 1, delay * 2)
RetryRecurse ==
  /\ rpc = "sleeping"
  /\ times' = MinusOne(times)
  /\ delay' = delay * 2
  /\ rpc' = "call"
  /\ UNCHANGED <<policy, calls, sleeps, lastErr, result, args>>

NextRetry ==
  \/ FnSucceeds /\ UNCHANGED outsideRetry
  \/ FnFails /\ UNCHANGED outsideRetry
  \/ RetryThrow /\ UNCHANGED outsideRetry
  \/ RetrySleep /\ UNCHANGED outsideRetry
  \/ RetryRecurse /\ UNCHANGED outsideRetry

\* no retry in progress
IdleRetry ==
  /\ times = Num(0)
  /\ delay = 0
  /\ policy = NoPolicy
  /\ rpc = "idle"
  /\ calls = 0
  /\ sleeps = <<>>
  /\ lastErr = 0
  /\ result = 0
  /\ args = [times |-> Num(0), delay |-> 0]

(***************************************************************************)
(* The source database and its paginated, filtered listing.                *)
(***************************************************************************)
MaxDocs == 3
MaxRuns == 2
MaxFails == 7

Docs == 1..MaxDocs
Titles == {"text", "empty", "none"}

\* config.notion.pageSize
PageSize == 10

Min(a, b) == IF a <= b THEN a ELSE b

\* the documents matching the filter { Synced: { checkbox: { equals: false } } }
\* that come after the cursor, in the order of the database
Matching(cursor) ==
  SelectSeq([i \in 1..MaxDocs |-> i], LAMBDA d : d > cursor /\ ~synced[d])

\* the lengths a page of the listing may have: at most page_size results
PageLens(cand) ==
  IF cand = <<>> THEN {0} ELSE 1..Min(PageSize, Len(cand))

\* the response of notion.databases.query with n results
Response(cand, n) ==
  [results |-> SubSeq(cand, 1, n),
   has_more |-> n < Len(cand),
   next_cursor |-> IF n < Len(cand) THEN cand[n] ELSE 0]

\* a changed SetSynced: the update writes a property the filter does not read
SetSyncedUnread(s, d) == s

\* notion.pages.update({ page_id, properties: { synced: true, Synced: true } })
SetSynced(s, d) == [s EXCEPT ![d] = TRUE]

\* a changed NextCursor: the cursor is not taken from the response
NextCursorStale(response) == 0

\* line 401: startCursor = response.next_cursor
NextCursor(response) == response.next_cursor

(***************************************************************************)
(* initSync(), src/sync.js:352-516                                         *)
(***************************************************************************)
\* the remote calls made through retry(..., policy object)
RetriedCalls == {"query", "fetch", "cover", "publish", "update"}
DocStages == {"fetch", "cover", "publish", "update"}

\* the policy object each call site passes
StagePolicy(stage) ==
  IF stage \in {"cover", "publish"} THEN wechatRetryConfig ELSE retryConfig

\* a changed AfterStage: the checkpoint is written without the publish call
AfterStageNoPublish(stage) ==
  CASE stage = "fetch" -> "cover"
    [] stage = "cover" -> "update"
    [] stage = "publish" -> "update"

\* the stage after a stage that succeeded (lines 462, 264, 281, 466, 469)
AfterStage(stage) ==
  CASE stage = "fetch" -> "cover"
    [] stage = "cover" -> "publish"
    [] stage = "publish" -> "update"

\* line 358: while (hasMore)
LoopHead(hm) == IF hm THEN "query" ELSE "done"

\* the for loop of line 403 goes on with the next page of the response, or ends
NextPage(i, rs, hm) == IF i < Len(rs) THEN "doc" ELSE LoopHead(hm)

\* lines 496-504: the catch clause of the document's try block evaluates
\* Object.keys(props); props is a const of the try block and not in scope,
\* so the clause throws a ReferenceError, which the outer catch (509-515)
\* rethrows
PerDocumentCatch == "thrown"

\* where a rejected remote call takes the run
OnReject(stage) == IF stage = "query" THEN "thrown" ELSE PerDocumentCatch

page == results[idx]

\* the error codes the platform may answer a publish call with
ErrCodes == {0, 40001}

\* !x of a number x: a boolean
Not(x) == [t |-> "bool", v |-> IF x = 0 THEN 1 ELSE 0]

\* part_002:185: if (!result.errCode === 0) throw; sync.js:281-295 has no
\* check of the answer at all
PublishThrows(code) == StrictEqZero(Not(code))

\* a changed Finish: the end of a document's turn is not awaited
FinishUnawaited(fin, d) == fin

\* the turn of document d in the for loop of line 403 has ended (continue,
\* or the end of the loop body)
Finish(fin, d) == fin \cup {d}

InitSync ==
  /\ title \in [Docs -> Titles]
  /\ synced \in [Docs -> BOOLEAN]
  /\ pc = "idle"
  /\ run = 0
  /\ processedCount = 0
  /\ startCursor = 0
  /\ hasMore = FALSE
  /\ results = <<>>
  /\ idx = 0
  /\ stimes = Obj
  /\ fails = 0
  /\ queries = <<>>
  /\ answers = <<>>
  /\ visited = <<>>
  /\ published = {}
  /\ updateIssued = {}
  /\ checkpointed = {}
  /\ processedBefore = {}
  /\ asleep = FALSE
  /\ finished = {}
  /\ steps = <<>>
  /\ errCode = 0
  /\ delayed = {}

\* index.js:21 / index.js:31 call initSync(); lines 353-355
StartRun ==
  /\ pc \in {"idle", "done", "thrown"}
  /\ run < MaxRuns
  /\ run' = run + 1
  /\ processedCount' = 0
  /\ startCursor' = 0
  /\ hasMore' = TRUE
  /\ pc' = "query"
  /\ results' = <<>>
  /\ idx' = 0
  /\ stimes' = Obj
  /\ fails' = 0
  /\ queries' = <<>>
  /\ answers' = <<>>
  /\ visited' = <<>>
  /\ published' = {}
  /\ updateIssued' = {}
  /\ checkpointed' = {}
  /\ processedBefore' = processedBefore \cup checkpointed
  /\ asleep' = FALSE
  /\ finished' = {}
  /\ steps' = <<>>
  /\ errCode' = 0
  /\ UNCHANGED <<title, synced>>
  /\ delayed' = {}

\* lines 360-401: the query is answered; hasMore and startCursor follow it
QueryOk ==
  /\ pc = "query"
  /\ ~asleep
  /\ \E n \in PageLens(Matching(startCursor)) :
       LET response == Response(Matching(startCursor), n) IN
         /\ queries' = Append(queries, startCursor)
         /\ answers' = Append(answers, response)
         /\ hasMore' = response.has_more
         /\ startCursor' = NextCursor(response)
         /\ results' = response.results
         /\ idx' = 1
         /\ pc' = NextPage(0, response.results, response.has_more)
  /\ stimes' = Obj
  /\ fails' = 0
  /\ UNCHANGED <<title, synced, run, processedCount, visited, published,
                 updateIssued, checkpointed, processedBefore, asleep,
                 finished, steps, errCode>>
  /\ UNCHANGED delayed

\* lines 403-446: the loop takes up a page; one without a title property or
\* with an empty title is skipped with continue
TakeDocument ==
  /\ pc = "doc"
  /\ visited' = Append(visited, page)
  /\ IF title[page] = "text"
       THEN pc' = "fetch" /\ idx' = idx /\ finished' = finished
       ELSE /\ pc' = NextPage(idx, results, hasMore)
            /\ idx' = idx + 1
            /\ finished' = Finish(finished, page)
  /\ steps' = <<>>
  /\ errCode' = 0
  /\ UNCHANGED <<title, synced, run, processedCount, startCursor, hasMore,
                 results, stimes, fails, asleep, queries, answers, published,
                 updateIssued, checkpointed, processedBefore>>
  /\ UNCHANGED delayed

\* an attempt of the remote call in progress has
\* thrown inside retry (part_008:18-20), which throws when times === 0 and
\* otherwise starts its sleep; fails counts the attempts up to MaxFails
CallFailed ==
  IF StrictEqZero(stimes)
    THEN pc' = OnReject(pc) /\ UNCHANGED <<stimes, fails, asleep>>
    ELSE /\ pc' = pc
         /\ asleep' = TRUE
         /\ fails' = Min(fails + 1, MaxFails)
         /\ UNCHANGED stimes

\* line 462 getAllBlocks, line 264 uploadImage(article.cover): the call
\* succeeds and the pipeline goes on
StageOk ==
  /\ pc \in {"fetch", "cover"}
  /\ ~asleep
  /\ pc' = AfterStage(pc)
  /\ steps' = Append(steps, pc)
  /\ stimes' = Obj
  /\ fails' = 0
  /\ UNCHANGED <<title, synced, run, processedCount, startCursor, hasMore,
                 results, idx, asleep, queries, answers, visited, published,
                 updateIssued, checkpointed, processedBefore, finished, errCode>>
  /\ UNCHANGED delayed

\* lines 281-295 (part_002:181-190): the platform answers the publish call
\* with an error code; publishArticle throws, inside retry, when its check
\* of the code says so, and returns the answer otherwise
PublishAnswered ==
  /\ pc = "publish"
  /\ ~asleep
  /\ \E code \in ErrCodes :
       IF PublishThrows(code)
         THEN /\ CallFailed
              /\ UNCHANGED <<published, steps, errCode>>
         ELSE /\ pc' = AfterStage(pc)
              /\ published' = published \cup {page}
              /\ steps' = Append(steps, pc)
              /\ errCode' = code
              /\ stimes' = Obj
              /\ fails' = 0
              /\ UNCHANGED asleep
  /\ UNCHANGED <<title, synced, run, processedCount, startCursor, hasMore,
                 results, idx, queries, answers, visited, updateIssued,
                 checkpointed, processedBefore, finished>>
  /\ UNCHANGED delayed

\* lines 469-495: pages.update succeeds; the page is counted, the loop sleeps
\* config.sync.delay and goes on
UpdateOk ==
  /\ pc = "update"
  /\ ~asleep
  /\ steps' = Append(steps, pc)
  /\ finished' = Finish(finished, page)
  /\ synced' = SetSynced(synced, page)
  /\ updateIssued' = updateIssued \cup {page}
  /\ checkpointed' = checkpointed \cup {page}
  /\ processedCount' = processedCount + 1
  /\ pc' = NextPage(idx, results, hasMore)
  /\ idx' = idx + 1
  /\ stimes' = Obj
  /\ fails' = 0
  /\ UNCHANGED <<title, run, startCursor, hasMore, results, asleep, queries,
                 answers, visited, published, processedBefore, errCode>>
  /\ delayed' = delayed \cup {page}

\* the remote call in progress rejects
AttemptFails ==
  /\ pc \in RetriedCalls
  /\ ~asleep
  /\ updateIssued' = IF pc = "update" THEN updateIssued \cup {page} ELSE updateIssued
  /\ CallFailed
  /\ UNCHANGED <<title, synced, run, processedCount, startCursor, hasMore,
                 results, idx, queries, answers, visited, published,
                 checkpointed, processedBefore, finished, steps, errCode>>
  /\ UNCHANGED delayed

\* part_008:20-21: the sleep is over, retry calls itself with times - 1
RetryWakes ==
  /\ asleep
  /\ asleep' = FALSE
  /\ stimes' = MinusOne(stimes)
  /\ UNCHANGED <<title, synced, pc, run, processedCount, startCursor, hasMore,
                 results, idx, fails, queries, answers, visited, published,
                 updateIssued, checkpointed, processedBefore, finished,
                 steps, errCode>>
  /\ UNCHANGED delayed

Next ==
  \/ StartRun /\ UNCHANGED outsideSync
  \/ QueryOk /\ UNCHANGED outsideSync
  \/ TakeDocument /\ UNCHANGED outsideSync
  \/ StageOk /\ UNCHANGED outsideSync
  \/ UpdateOk /\ UNCHANGED outsideSync
  \/ PublishAnswered /\ UNCHANGED outsideSync
  \/ AttemptFails /\ UNCHANGED outsideSync
  \/ RetryWakes /\ UNCHANGED outsideSync

\* no run of initSync
IdleSync ==
  /\ title = [d \in Docs |-> "text"]
  /\ synced = [d \in Docs |-> FALSE]
  /\ pc = "idle"
  /\ run = 0
  /\ processedCount = 0
  /\ startCursor = 0
  /\ hasMore = FALSE
  /\ results = <<>>
  /\ idx = 0
  /\ stimes = Obj
  /\ fails = 0
  /\ queries = <<>>
  /\ answers = <<>>
  /\ visited = <<>>
  /\ published = {}
  /\ updateIssued = {}
  /\ checkpointed = {}
  /\ processedBefore = {}
  /\ asleep = FALSE
  /\ finished = {}
  /\ steps = <<>>
  /\ errCode = 0
  /\ delayed = {}

(***************************************************************************)
(* The manual trigger, src/index.js:19-27                                  *)
(***************************************************************************)
NoResponse == [status |-> 0, body |-> <<>>]

\* line 22: res.status(200).send('Sync triggered')
Success == [status |-> 200, body |-> <<"Sync triggered">>]

\* line 25: res.status(500).send(err.message)
Failure == [status |-> 500, body |-> <<"err.message">>]

\* no request
IdleHttp ==
  /\ hpc = "idle"
  /\ res = NoResponse

\* lines 19-21: a POST /sync request arrives and the handler calls initSync
PostSync ==
  /\ hpc \in {"idle", "answered"}
  /\ StartRun
  /\ hpc' = "awaiting"
  /\ res' = NoResponse

\* index.js:31: the schedule calls initSync
ScheduledSync ==
  /\ hpc # "awaiting"
  /\ StartRun
  /\ UNCHANGED httpVars

\* lines 21-26: initSync has returned or thrown; the handler answers
Respond ==
  /\ hpc = "awaiting"
  /\ pc \in {"done", "thrown"}
  /\ res' = IF pc = "done" THEN Success ELSE Failure
  /\ hpc' = "answered"
  /\ UNCHANGED syncVars

NextHttp ==
  \/ PostSync /\ UNCHANGED outsideHttp
  \/ ScheduledSync /\ UNCHANGED outsideHttp
  \/ Respond /\ UNCHANGED outsideHttp
  \/ QueryOk /\ UNCHANGED outsideSync
  \/ TakeDocument /\ UNCHANGED outsideSync
  \/ StageOk /\ UNCHANGED outsideSync
  \/ PublishAnswered /\ UNCHANGED outsideSync
  \/ UpdateOk /\ UNCHANGED outsideSync
  \/ AttemptFails /\ UNCHANGED outsideSync
  \/ RetryWakes /\ UNCHANGED outsideSync

(***************************************************************************)
(* getAllBlocks(blockId), src/sync.js:306-349                              *)
(***************************************************************************)
MaxNodes == 4

\* block 0 is the page (the root); the others are its descendants
Nodes == 0..MaxNodes

\* the children of n, in the order of the source, when block i has parent par[i]
ChildrenOf(par, n) ==
  SelectSeq([i \in 1..MaxNodes |-> i], LAMBDA i : par[i] = n)

\* the trees of blocks 1..MaxNodes under the root
Trees ==
  {[n \in Nodes |-> ChildrenOf(par, n)] :
     par \in {q \in [1..MaxNodes -> Nodes] : \A i \in 1..MaxNodes : q[i] < i}}

\* block.has_children
HasChildren(n) == tree[n] # <<>>

\* line 318: page_size: 100
BlockPageSize == 100

\* the lengths the next page of the children of n may have
BlockPageLens(n) ==
  IF Len(allBlocks[n]) = Len(tree[n]) THEN {0}
  ELSE 1..Min(BlockPageSize, Len(tree[n]) - Len(allBlocks[n]))

\* response.has_more when g has been listed under n
MoreAfter(n, g) == Len(g) < Len(tree[n])

\* the blocks under n whose getAllBlocks the Promise.all of lines 329-337
\* waits for: all earlier ones have returned before the loop went on
Awaited(n, g, st) ==
  {g[i] : i \in {j \in 1..Len(g) : HasChildren(g[j]) /\ st[g[j]] # "returned"}}

RECURSIVE TimesAfter(_, _)
\* `times` in the activation of retry after k failed attempts (part_008:21)
TimesAfter(t, k) == IF k = 0 THEN t ELSE TimesAfter(MinusOne(t), k - 1)

\* the parent of block n
ParentOf(n) == CHOOSE m \in Nodes : \E i \in 1..Len(tree[m]) : tree[m][i] = n

RECURSIVE Ancestors(_)
\* n and the blocks above it
Ancestors(n) == IF n = 0 THEN {0} ELSE {n} \cup Ancestors(ParentOf(n))

\* lines 338-345 and Promise.all: the rejection of the listing of n is
\* rethrown by every getAllBlocks that awaits it, up to the root
RejectUpward(st, n) ==
  [m \in Nodes |-> IF m \in Ancestors(n) /\ st[m] \in {"listing", "joining"}
                     THEN "rejected" ELSE st[m]]

\* lines 324-327 and 338: after a page the loop goes back to while (hasMore)
\* and to the next listing call; it suspends nowhere between two pages
InterPageDelay(more) == <<>>

\* a changed AfterPage: the loop ends after the first page
AfterFirstPage(n, g) == "returned"

\* line 311: while (hasMore), and line 348
AfterPage(n, g) == IF MoreAfter(n, g) THEN "listing" ELSE "returned"

\* a changed AttachTo: the result goes to the first block of the page that
\* still waits for its children
AttachToWaiting(n) ==
  LET g == allBlocks[ParentOf(n)]
      at == {i \in 1..Len(g) : HasChildren(g[i]) /\ ~children[g[i]].set}
  IN  IF at = {} THEN n ELSE g[CHOOSE i \in at : \A j \in at : i <= j]

\* lines 330-335: `block` of the callback that awaited getAllBlocks(n)
AttachTo(n) == n

\* line 333, block.children = childBlocks, when getAllBlocks(n) returned g to
\* the callback of lines 330-335; the call for the page has no such caller
Attach(ch, n, g) ==
  IF n = 0 THEN ch ELSE [ch EXCEPT ![AttachTo(n)] = [set |-> TRUE, v |-> g]]

\* no block has its children set
NoChildrenSet == [n \in Nodes |-> [set |-> FALSE, v |-> <<>>]]

\* getAllBlocks(page.id) is called: lines 307-309
InitTree ==
  /\ tree \in Trees
  /\ gpc = [n \in Nodes |-> IF n = 0 THEN "listing" ELSE "none"]
  /\ allBlocks = [n \in Nodes |-> <<>>]
  /\ gfails = [n \in Nodes |-> 0]
  /\ children = NoChildrenSet
  /\ completed = <<>>
  /\ glog = [n \in Nodes |-> <<>>]

\* lines 314-337: the listing of the children of n is answered; the blocks of
\* the page are appended and getAllBlocks is called for each of them that
\* has children
ListOk(n) ==
  /\ gpc[n] = "listing"
  /\ \E len \in BlockPageLens(n) :
       LET from == Len(allBlocks[n])
           g == allBlocks[n] \o SubSeq(tree[n], from + 1, from + len)
           started == {g[i] : i \in {j \in from + 1..from + len : HasChildren(g[j])}}
           returns == started = {} /\ AfterPage(n, g) = "returned"
       IN  /\ allBlocks' = [allBlocks EXCEPT ![n] = g]
           /\ glog' = [glog EXCEPT ![n] = @ \o <<"page">> \o InterPageDelay(MoreAfter(n, g))]
           /\ children' = IF returns THEN Attach(children, n, g) ELSE children
           /\ completed' = IF returns THEN Append(completed, n) ELSE completed
           /\ gpc' = [m \in Nodes |->
                        IF m \in started THEN "listing"
                        ELSE IF m = n
                          THEN IF started = {} THEN AfterPage(n, g) ELSE "joining"
                          ELSE gpc[m]]
  /\ gfails' = [gfails EXCEPT ![n] = 0]
  /\ UNCHANGED tree

\* an attempt of the listing of n fails inside retry (part_008:18-21)
ListFails(n) ==
  /\ gpc[n] = "listing"
  /\ IF StrictEqZero(TimesAfter(Obj, gfails[n]))
       THEN gpc' = RejectUpward(gpc, n) /\ UNCHANGED gfails
       ELSE /\ gfails' = [gfails EXCEPT ![n] = Min(gfails[n] + 1, MaxFails)]
            /\ UNCHANGED gpc
  /\ UNCHANGED <<tree, allBlocks, children, completed, glog>>

\* lines 329-337: every getAllBlocks the Promise.all waits for has returned
JoinDone(n) ==
  /\ gpc[n] = "joining"
  /\ Awaited(n, allBlocks[n], gpc) = {}
  /\ gpc' = [gpc EXCEPT ![n] = AfterPage(n, allBlocks[n])]
  /\ IF AfterPage(n, allBlocks[n]) = "returned"
       THEN /\ children' = Attach(children, n, allBlocks[n])
            /\ completed' = Append(completed, n)
       ELSE UNCHANGED <<children, completed>>
  /\ UNCHANGED <<tree, allBlocks, gfails, glog>>

NextTree ==
  \/ \E n \in Nodes : ListOk(n) /\ UNCHANGED outsideTree
  \/ \E n \in Nodes : ListFails(n) /\ UNCHANGED outsideTree
  \/ \E n \in Nodes : JoinDone(n) /\ UNCHANGED outsideTree

\* no call of getAllBlocks
IdleTree ==
  /\ tree = [n \in Nodes |-> <<>>]
  /\ gpc = [n \in Nodes |-> "none"]
  /\ allBlocks = [n \in Nodes |-> <<>>]
  /\ gfails = [n \in Nodes |-> 0]
  /\ children = NoChildrenSet
  /\ completed = <<>>
  /\ glog = [n \in Nodes |-> <<>>]

(***************************************************************************)
(* The media relay                                                         *)
(***************************************************************************)
MaxChunks == 3

\* downloadMedia line 54: 10 * 1024 * 1024
Ceiling == 10485760

\* the chunk lengths the stream may deliver (4 MB, 7 MB)
ChunkLens == {4194304, 7340032}

\* retryConfig of src/unnamed/part_002:20-27, spread into the policy objects
\* of uploadMedia (lines 89-94 and 118-123)
mediaRetryConfig == [retries |-> 3, minTimeout |-> 2000, maxTimeout |-> 10000]

\* config.wechat.imageTypes and config.wechat.maxImageSize
imageTypes == {"image/jpeg", "image/png", "image/gif"}
maxImageSize == 2097152

\* what cloud.downloadFile may hand to uploadImage
BufferTypes == {"image/png", "text/html"}
BufferLens == {1048576, 3145728}

\* a changed Settle: a later resolve or reject replaces the earlier one
SettleLast(p, to) == to

\* resolve() / reject() of a promise: only the first call settles it
Settle(p, to) == IF p = "pending" THEN to ELSE p

\* the catch clause of the relay function: uploadMedia (part_002:128-136)
\* returns process.env.DEFAULT_THUMB_MEDIA_ID || '', uploadImage
\* (sync.js:230-236) logs and rethrows
Caught(f) == IF f = "uploadMedia" THEN "returned" ELSE "thrown"
CaughtResult(f) == IF f = "uploadMedia" THEN "fallback" ELSE "error"

\* where retry starts the operation again: uploadMedia wraps the download
\* and the upload in a retry each, uploadImage wraps both in one
Restart(f, stage) == IF f = "uploadMedia" THEN stage ELSE "imgdownload"

InitMedia ==
  /\ fn \in {"uploadMedia", "uploadImage"}
  /\ mpc = IF fn = "uploadMedia" THEN "download" ELSE "imgdownload"
  /\ mtimes = Obj
  /\ mfails = 0
  /\ promise = "pending"
  /\ streamOpen = FALSE
  /\ nchunks = 0
  /\ totalLength = 0
  /\ buffer = 0
  /\ mresult = "none"
  /\ downloads = 0
  /\ uploads = 0
  /\ oversize = 0
  /\ validation = "none"

\* an attempt of the operation under retry has failed (part_008:18-21):
\* throw when times === 0, else sleep and run the operation again
AttemptFailed(stage) ==
  /\ mfails < MaxFails
  /\ IF StrictEqZero(mtimes)
       THEN /\ mpc' = Caught(fn)
            /\ mresult' = CaughtResult(fn)
            /\ UNCHANGED <<mtimes, mfails>>
       ELSE /\ mpc' = Restart(fn, stage)
            /\ mtimes' = MinusOne(mtimes)
            /\ mfails' = mfails + 1
            /\ UNCHANGED mresult

\* downloadMedia lines 33-44: axios answers 200 with a stream
DownloadConnects ==
  /\ mpc = "download"
  /\ downloads' = downloads + 1
  /\ mpc' = "stream"
  /\ promise' = "pending"
  /\ streamOpen' = TRUE
  /\ nchunks' = 0
  /\ totalLength' = 0
  /\ UNCHANGED <<fn, mtimes, mfails, buffer, mresult, uploads, oversize, validation>>

\* downloadMedia lines 33-40, 74-82: the request fails (network, status,
\* timeout); downloadMedia throws inside retry
DownloadRequestFails ==
  /\ mpc = "download"
  /\ downloads' = downloads + 1
  /\ AttemptFailed("download")
  /\ oversize' = 0
  /\ UNCHANGED validation
  /\ UNCHANGED <<fn, promise, streamOpen, nchunks, totalLength, buffer, uploads>>

\* lines 48-57: a data event; the stream is not stopped by reject()
StreamData ==
  /\ mpc = "stream"
  /\ streamOpen
  /\ nchunks < MaxChunks
  /\ \E len \in ChunkLens :
       /\ nchunks' = nchunks + 1
       /\ totalLength' = totalLength + len
       /\ promise' = IF totalLength + len > Ceiling
                        THEN Settle(promise, "rejected") ELSE promise
  /\ UNCHANGED <<fn, mpc, mtimes, mfails, streamOpen, buffer, mresult,
                 downloads, uploads, oversize, validation>>

\* lines 59-62: the end event
StreamEnd ==
  /\ mpc = "stream"
  /\ streamOpen
  /\ streamOpen' = FALSE
  /\ promise' = Settle(promise, "resolved")
  /\ UNCHANGED <<fn, mpc, mtimes, mfails, nchunks, totalLength, buffer,
                 mresult, downloads, uploads, oversize, validation>>

\* lines 64-67: the error event
StreamError ==
  /\ mpc = "stream"
  /\ streamOpen
  /\ streamOpen' = FALSE
  /\ promise' = Settle(promise, "rejected")
  /\ UNCHANGED <<fn, mpc, mtimes, mfails, nchunks, totalLength, buffer,
                 mresult, downloads, uploads, oversize, validation>>

\* lines 70-72 and uploadMedia 89-100: the promise is resolved, downloadMedia
\* returns Buffer.concat(chunks); an empty buffer makes uploadMedia throw
\* 'Empty media content' into its own catch clause
DownloadReturns ==
  /\ mpc = "stream"
  /\ promise = "resolved"
  /\ buffer' = totalLength
  /\ IF totalLength = 0
       THEN mpc' = Caught(fn) /\ mresult' = CaughtResult(fn)
       ELSE mpc' = "upload" /\ mresult' = mresult
  /\ mtimes' = Obj
  /\ mfails' = 0
  /\ oversize' = 0
  /\ UNCHANGED validation
  /\ UNCHANGED <<fn, promise, streamOpen, nchunks, totalLength, downloads, uploads>>

\* lines 74-82: the promise is rejected, downloadMedia throws inside retry
DownloadThrows ==
  /\ mpc = "stream"
  /\ promise = "rejected"
  /\ AttemptFailed("download")
  /\ oversize' = IF totalLength > Ceiling THEN oversize + 1 ELSE 0
  /\ UNCHANGED validation
  /\ UNCHANGED <<fn, promise, streamOpen, nchunks, totalLength, buffer,
                 downloads, uploads>>

\* uploadMedia lines 104-109, 126-127 / uploadImage lines 221-229
UploadOk ==
  /\ mpc \in {"upload", "imgupload"}
  /\ uploads' = uploads + 1
  /\ mresult' = "fileID"
  /\ mpc' = "returned"
  /\ UNCHANGED <<fn, mtimes, mfails, promise, streamOpen, nchunks, totalLength,
                 buffer, downloads, oversize, validation>>

\* cloud.uploadFile rejects inside retry
UploadFails ==
  /\ mpc \in {"upload", "imgupload"}
  /\ uploads' = uploads + 1
  /\ AttemptFailed(mpc)
  /\ UNCHANGED <<fn, promise, streamOpen, nchunks, totalLength, buffer,
                 downloads, oversize, validation>>

\* uploadImage lines 209-219: cloud.downloadFile answers; a type outside
\* imageTypes or a length above maxImageSize throws inside retry
ImageDownloadOk ==
  /\ mpc = "imgdownload"
  /\ downloads' = downloads + 1
  /\ \E ty \in BufferTypes, len \in BufferLens :
       IF ty \in imageTypes /\ len <= maxImageSize
         THEN /\ mpc' = "imgupload"
              /\ buffer' = len
              /\ UNCHANGED <<mtimes, mfails, mresult, validation>>
         ELSE /\ AttemptFailed("imgdownload")
              /\ buffer' = 0
              /\ validation' = "rejected"
  /\ UNCHANGED <<fn, promise, streamOpen, nchunks, totalLength, uploads, oversize>>

\* uploadImage lines 209-211: cloud.downloadFile rejects inside retry
ImageDownloadFails ==
  /\ mpc = "imgdownload"
  /\ downloads' = downloads + 1
  /\ AttemptFailed("imgdownload")
  /\ UNCHANGED <<fn, promise, streamOpen, nchunks, totalLength, buffer,
                 uploads, oversize, validation>>

NextMedia ==
  \/ DownloadConnects /\ UNCHANGED outsideMedia
  \/ DownloadRequestFails /\ UNCHANGED outsideMedia
  \/ StreamData /\ UNCHANGED outsideMedia
  \/ StreamEnd /\ UNCHANGED outsideMedia
  \/ StreamError /\ UNCHANGED outsideMedia
  \/ DownloadReturns /\ UNCHANGED outsideMedia
  \/ DownloadThrows /\ UNCHANGED outsideMedia
  \/ UploadOk /\ UNCHANGED outsideMedia
  \/ UploadFails /\ UNCHANGED outsideMedia
  \/ ImageDownloadOk /\ UNCHANGED outsideMedia
  \/ ImageDownloadFails /\ UNCHANGED outsideMedia

\* no relay call
IdleMedia ==
  /\ fn = "none"
  /\ mpc = "idle"
  /\ mtimes = Obj
  /\ mfails = 0
  /\ promise = "pending"
  /\ streamOpen = FALSE
  /\ nchunks = 0
  /\ totalLength = 0
  /\ buffer = 0
  /\ mresult = "none"
  /\ downloads = 0
  /\ uploads = 0
  /\ oversize = 0
  /\ validation = "none"

(***************************************************************************)
(* The renderer.  Markup is a sequence of tokens: tags and texts.          *)
(***************************************************************************)
MaxTextRuns == 2
MaxBlocks == 4

Styles == {"bold", "italic", "strikethrough", "underline", "code"}
Hrefs == {"", "u"}
Letters == <<"A", "B", "C", "D", "E", "F">>

\* `<a href="${text.href}" target="_blank">`
AnchorOpen(href) == IF href = "u" THEN "<a href=u target=_blank>" ELSE "<a>"

\* content = `<tag>${content}</tag>` when the annotation is set
WrapIf(c, on, open, close) == IF on THEN <<open>> \o c \o <<close>> ELSE c

\* a changed RenderRun: the link anchor is put inside the style wrappers
RenderRunAnchorInside(text) ==
  LET c0 == IF text.href # ""
              THEN <<AnchorOpen(text.href), text.plain_text, "</a>">>
              ELSE <<text.plain_text>>
      c1 == WrapIf(c0, "bold" \in text.annotations, "<strong>", "</strong>")
      c2 == WrapIf(c1, "italic" \in text.annotations, "<em>", "</em>")
      c3 == WrapIf(c2, "strikethrough" \in text.annotations, "<del>", "</del>")
      c4 == WrapIf(c3, "underline" \in text.annotations, "<u>", "</u>")
  IN  WrapIf(c4, "code" \in text.annotations, "<code>", "</code>")

\* the callback of richText.map, part_006:203-227 (part_001:170-184)
RenderRun(text) ==
  LET c0 == <<text.plain_text>>
      c1 == WrapIf(c0, "bold" \in text.annotations, "<strong>", "</strong>")
      c2 == WrapIf(c1, "italic" \in text.annotations, "<em>", "</em>")
      c3 == WrapIf(c2, "strikethrough" \in text.annotations, "<del>", "</del>")
      c4 == WrapIf(c3, "underline" \in text.annotations, "<u>", "</u>")
      c5 == WrapIf(c4, "code" \in text.annotations, "<code>", "</code>")
  IN  IF text.href # "" THEN <<AnchorOpen(text.href)>> \o c5 \o <<"</a>">> ELSE c5

RECURSIVE richTextToHtml(_)
\* part_006:199-232: '' for no runs, else the runs mapped and joined with ''
richTextToHtml(rt) ==
  IF rt = <<>> THEN <<>> ELSE RenderRun(Head(rt)) \o richTextToHtml(Tail(rt))

\* the rich texts given to richTextToHtml: run i carries the i-th letter
RichTexts(n) ==
  {[i \in 1..n |-> [plain_text |-> Letters[i], annotations |-> a[i], href |-> h[i]]] :
     a \in [1..n -> SUBSET Styles], h \in [1..n -> Hrefs]}

InitText ==
  /\ \E n \in 0..MaxTextRuns : richText \in RichTexts(n)
  /\ tpc = "input"
  /\ content = <<>>

RichTextCall ==
  /\ tpc = "input"
  /\ content' = richTextToHtml(richText)
  /\ tpc' = "done"
  /\ UNCHANGED richText

NextText ==
  \/ RichTextCall /\ UNCHANGED outsideText

IdleText ==
  /\ richText = <<>>
  /\ tpc = "idle"
  /\ content = <<>>

ListItems == {"bulleted_list_item", "numbered_list_item"}
Kinds == {"paragraph"} \cup ListItems

\* a plain run of text
Plain(s) == [plain_text |-> s, annotations |-> {}, href |-> ""]

\* uploadMedia of part_006:50-82 (part_001:49-73): the storage reference, or
\* process.env.DEFAULT_THUMB_MEDIA_ID || '' when the transfer fails
UploadMedia(relay) == IF relay = "ok" THEN "fileID" ELSE "fallback"

\* the switch of blockToHtml, part_006:125-185
BlockMarkup(block) ==
  CASE block.type = "paragraph" ->
         <<"<p>">> \o richTextToHtml(block.rich_text) \o <<"</p>">>
    [] block.type = "heading_1" ->
         <<"<h1>">> \o richTextToHtml(block.rich_text) \o <<"</h1>">>
    [] block.type = "heading_2" ->
         <<"<h2>">> \o richTextToHtml(block.rich_text) \o <<"</h2>">>
    [] block.type = "heading_3" ->
         <<"<h3>">> \o richTextToHtml(block.rich_text) \o <<"</h3>">>
    [] block.type \in ListItems ->
         <<"<li>">> \o richTextToHtml(block.rich_text) \o <<"</li>">>
    [] block.type = "code" ->
         <<"<pre>", "<code>">> \o richTextToHtml(block.rich_text) \o <<"</code>", "</pre>">>
    [] block.type = "quote" ->
         <<"<blockquote>">> \o richTextToHtml(block.rich_text) \o <<"</blockquote>">>
    [] block.type = "divider" -> <<"<hr/>">>
    [] block.type = "image" -> <<"<img src=", UploadMedia(block.relay), "/>">>
    [] OTHER -> <<>>

\* blockToHtml, part_006:121-196 (part_001:107-163 differs in the inline
\* styles of pre and blockquote only): a block whose data make the switch
\* throw is caught at lines 188-195, which return ''
blockToHtml(block) ==
  IF block.fault = "malformed" THEN <<>> ELSE BlockMarkup(block)

\* blockToHtml of part_002:318-372 has no try: it throws on a block whose
\* data make the switch throw, and when uploadMedia (part_002:444-459) throws
BlockThrowsP2(block) ==
  \/ block.fault = "malformed"
  \/ block.type = "image" /\ block.relay # "ok"

\* a changed ListingThrows: a failed listing counts as an empty one
ListingIgnored(block) == FALSE

\* the listing of the children of the block fails: getAllBlocks of
\* part_006:108-114 rethrows, the call of part_002:426 rejects
ListingThrows(block) == block.fault = "children"

RECURSIVE Throws(_)
\* convertContent of part_006 rejects (lines 255-258, 266-269): the listing
\* of the children of a block, at any depth, fails
Throws(bs) ==
  \E i \in 1..Len(bs) :
    bs[i].has_children /\ (ListingThrows(bs[i]) \/ Throws(bs[i].children))

RECURSIVE ThrowsP2(_)
\* convertContent of part_002 rejects: blockToHtml throws, or the listing of
\* the children of a block fails, at any depth
ThrowsP2(bs) ==
  \E i \in 1..Len(bs) :
    \/ BlockThrowsP2(bs[i])
    \/ bs[i].has_children /\ (ListingThrows(bs[i]) \/ ThrowsP2(bs[i].children))

\* html.endsWith(tag)
EndsWith(h, tag) == h # <<>> /\ h[Len(h)] = tag

RECURSIVE convertContent(_)
RECURSIVE ConvertLoop(_, _, _, _)
\* the for loop of convertContent, part_006:240-263, from block i on, and
\* the closing of lines 261-263
ConvertLoop(bs, i, h, inList) ==
  IF i > Len(bs)
    THEN IF inList
           THEN h \o <<IF bs[Len(bs)].type = "bulleted_list_item" THEN "</ul>" ELSE "</ol>">>
           ELSE h
    ELSE LET block == bs[i]
             blockHtml == blockToHtml(block)
             h1 == IF block.type \in ListItems
                     THEN IF ~inList
                            THEN h \o <<IF block.type = "bulleted_list_item" THEN "<ul>" ELSE "<ol>">>
                            ELSE h
                     ELSE IF inList
                            THEN h \o <<IF block.type = "bulleted_list_item" THEN "</ul>" ELSE "</ol>">>
                            ELSE h
             h2 == h1 \o blockHtml
             h3 == IF block.has_children THEN h2 \o convertContent(block.children) ELSE h2
         IN  ConvertLoop(bs, i + 1, h3, block.type \in ListItems)

\* convertContent, part_006:235-270
convertContent(bs) == ConvertLoop(bs, 1, <<>>, FALSE)

\* blocks[blocks.indexOf(block) + 1]?.type?.includes('list_item')
NextIsListItem(bs, i) == i < Len(bs) /\ bs[i + 1].type \in ListItems

RECURSIVE ConvertLoopP1(_, _, _, _)
\* the for loop of convertContent, part_001:197-214, from block i on
ConvertLoopP1(bs, i, h, inList) ==
  IF i > Len(bs)
    THEN h
    ELSE LET block == bs[i]
             opens == block.type \in ListItems /\ ~inList
             closes == ~opens /\ inList /\ block.type \notin ListItems
             h1 == IF opens
                     THEN h \o <<IF block.type = "bulleted_list_item" THEN "<ul>" ELSE "<ol>">>
                     ELSE IF closes /\ EndsWith(h, "</li>") THEN h \o <<"</ul>">> ELSE h
             in1 == IF opens THEN TRUE ELSE IF closes THEN FALSE ELSE inList
             h2 == h1 \o blockToHtml(block)
             after == in1 /\ ~NextIsListItem(bs, i)
             h3 == IF after THEN h2 \o <<"</ul>">> ELSE h2
         IN  ConvertLoopP1(bs, i + 1, h3, IF after THEN FALSE ELSE in1)

\* convertContent, part_001:192-221
convertContentP1(bs) == ConvertLoopP1(bs, 1, <<>>, FALSE)

RECURSIVE ConvertLoopP2(_, _, _, _)
RECURSIVE convertContentP2(_)
\* the for loop of convertContent, part_002:412-433, from block i on, and
\* the closing of lines 436-438
ConvertLoopP2(bs, i, h, inList) ==
  IF i > Len(bs)
    THEN IF inList /\ ~EndsWith(h, "</ul>") THEN h \o <<"</ul>">> ELSE h
    ELSE LET block == bs[i]
             opens == block.type \in ListItems /\ ~inList
             closes == ~opens /\ inList /\ block.type \notin ListItems
             h1 == IF opens
                     THEN h \o <<IF block.type = "bulleted_list_item" THEN "<ul>" ELSE "<ol>">>
                     ELSE IF closes /\ ~EndsWith(h, "</ul>") THEN h \o <<"</ul>">> ELSE h
             in1 == IF opens THEN TRUE ELSE IF closes THEN FALSE ELSE inList
             h2 == h1 \o BlockMarkup(block)
             h3 == IF block.has_children
                     THEN h2 \o <<"<div>">> \o convertContentP2(block.children) \o <<"</div>">>
                     ELSE h2
         IN  ConvertLoopP2(bs, i + 1, h3, in1)

\* convertContent, part_002:408-441
convertContentP2(bs) == ConvertLoopP2(bs, 1, <<>>, FALSE)

\* a block without children
Leaf(kind, s) ==
  [type |-> kind, rich_text |-> <<Plain(s)>>, has_children |-> FALSE,
   children |-> <<>>, fault |-> "none", relay |-> "ok"]

\* what getAllBlocks (part_006:256) returns for a block with children
ChildBlocks == <<Leaf("bulleted_list_item", "x"), Leaf("paragraph", "y")>>

\* the block sequences given to convertContent: block i carries the i-th letter
BlockSeqs(n) ==
  {[i \in 1..n |-> [type |-> k[i], rich_text |-> <<Plain(Letters[i])>>,
                    has_children |-> c[i],
                    children |-> IF c[i] THEN ChildBlocks ELSE <<>>,
                    fault |-> "none", relay |-> "ok"]] :
     k \in [1..n -> Kinds], c \in [1..n -> BOOLEAN]}

\* a child whose own children cannot be listed
FailingChild ==
  [Leaf("paragraph", "z") EXCEPT !.has_children = TRUE, !.fault = "children"]

\* what may stand in the place of block b: b with data that make the switch
\* of blockToHtml throw; b with children whose listing fails, directly or
\* one level down; an image block whose transfer succeeds or fails
Variants(b) ==
  {[b EXCEPT !.fault = "malformed"],
   [b EXCEPT !.has_children = TRUE, !.children = <<>>, !.fault = "children"],
   [b EXCEPT !.has_children = TRUE, !.children = <<FailingChild>>],
   [b EXCEPT !.type = "image", !.relay = "ok"],
   [b EXCEPT !.type = "image", !.relay = "fails"]}

InitRender ==
  /\ \E n \in 0..MaxBlocks : \E bs \in BlockSeqs(n) : \E pos \in 0..n :
       blocks \in IF pos = 0 THEN {bs}
                  ELSE {[bs EXCEPT ![pos] = v] : v \in Variants(bs[pos])}
  /\ cpc = "input"
  /\ html = <<>>
  /\ htmlP1 = <<>>
  /\ htmlP2 = <<>>
  /\ threw = {}

\* convertContent(blocks) is called; a revision that rejects returns nothing
ConvertCall ==
  /\ cpc = "input"
  /\ html' = IF Throws(blocks) THEN <<>> ELSE convertContent(blocks)
  /\ htmlP1' = convertContentP1(blocks)
  /\ htmlP2' = IF ThrowsP2(blocks) THEN <<>> ELSE convertContentP2(blocks)
  /\ threw' = {r \in {"part_006"} : Throws(blocks)}
                 \cup {r \in {"part_002"} : ThrowsP2(blocks)}
  /\ cpc' = "done"
  /\ UNCHANGED blocks

\* initSync of part_006:303-353: the article is published after
\* convertContent has returned; its rejection is caught at the end of the
\* loop body, which goes on with the next page
DocumentBoundary ==
  /\ cpc = "done"
  /\ cpc' = IF "part_006" \in threw THEN "skipped" ELSE "published"
  /\ UNCHANGED <<blocks, html, htmlP1, htmlP2, threw>>

NextRender ==
  \/ ConvertCall /\ UNCHANGED outsideRender
  \/ DocumentBoundary /\ UNCHANGED outsideRender

IdleRender ==
  /\ blocks = <<>>
  /\ cpc = "idle"
  /\ html = <<>>
  /\ htmlP1 = <<>>
  /\ htmlP2 = <<>>
  /\ threw = {}

(***************************************************************************)
(* convertContent of src/sync.js:240-258: the text is converted by the     *)
(* notion-to-html library, then every <img src="..."> found in it is       *)
(* transferred with uploadImage and its address replaced in the text.      *)
(***************************************************************************)
MaxElems == 3

\* the addresses of the images of a document
Urls == {"u1", "u2"}

\* what a document is made of: a text, which may spell an address, or an image
Elems ==
  {[kind |-> "text", v |-> t] : t \in {"x"} \cup Urls}
    \cup {[kind |-> "image", v |-> u] : u \in Urls}

ElemSeqs == UNION {[1..n -> Elems] : n \in 0..MaxElems}

RECURSIVE convert(_)
\* convert(blocks), line 242: the markup the regular expression of line 245
\* is written for, an <img src="..."> for every image
convert(es) ==
  IF es = <<>> THEN <<>>
  ELSE (IF Head(es).kind = "image"
          THEN <<"<img src=", Head(es).v, "/>">>
          ELSE <<"<p>", Head(es).v, "</p>">>) \o convert(Tail(es))

\* [...html.matchAll(imgRegex)], lines 245-246: match[1] of every match
MatchAll(h) ==
  LET at == SelectSeq([i \in 1..Len(h) |-> i],
                      LAMBDA i : h[i] = "<img src=" /\ i < Len(h))
  IN  [k \in 1..Len(at) |-> h[at[k] + 1]]

\* html.replace(match[1], wxUrl), line 250: String.prototype.replace with a
\* string pattern replaces the first occurrence of the pattern in the text
ReplaceFirst(h, u, w) ==
  LET at == {i \in 1..Len(h) : h[i] = u}
  IN  IF at = {} THEN h
      ELSE [h EXCEPT ![CHOOSE i \in at : \A j \in at : i <= j] = w]

InitImages ==
  /\ imgHtml = <<>>
  /\ matches = <<>>
  /\ mi = 1
  /\ ipc = "called"
  /\ ifails = 0

\* lines 242-246
ConvertReturns ==
  /\ ipc = "called"
  /\ \E es \in ElemSeqs :
       /\ imgHtml' = convert(es)
       /\ matches' = MatchAll(convert(es))
  /\ mi' = 1
  /\ ipc' = "loop"
  /\ UNCHANGED ifails

\* lines 249-250: uploadImage resolves with response.fileID (line 230)
ImageRelayed ==
  /\ ipc = "loop"
  /\ mi <= Len(matches)
  /\ imgHtml' = ReplaceFirst(imgHtml, matches[mi], "fileID")
  /\ mi' = mi + 1
  /\ ifails' = 0
  /\ UNCHANGED <<matches, ipc>>

\* an attempt of uploadImage (lines 207-226) fails: retry, given the policy
\* object as `times`, sleeps and calls again, and line 249 keeps waiting
ImageAttemptFails ==
  /\ ipc = "loop"
  /\ mi <= Len(matches)
  /\ ifails < MaxFails
  /\ ifails' = ifails + 1
  /\ UNCHANGED <<imgHtml, matches, mi, ipc>>

\* line 253
ReturnHtml ==
  /\ ipc = "loop"
  /\ mi > Len(matches)
  /\ ipc' = "returned"
  /\ UNCHANGED <<imgHtml, matches, mi, ifails>>

NextImages ==
  \/ ConvertReturns /\ UNCHANGED outsideImages
  \/ ImageRelayed /\ UNCHANGED outsideImages
  \/ ImageAttemptFails /\ UNCHANGED outsideImages
  \/ ReturnHtml /\ UNCHANGED outsideImages

IdleImages ==
  /\ imgHtml = <<>>
  /\ matches = <<>>
  /\ mi = 1
  /\ ipc = "idle"
  /\ ifails = 0

(***************************************************************************)
(* The page loop of initSync in the revisions part_001 and part_003: the   *)
(* title is read, and the document goes through its remote calls.          *)
(***************************************************************************)
\* the remote calls made for one document, in order: part_001:246-288
\* (getAllBlocks, uploadMedia of the cover of a page that has one,
\* publishArticle, pages.update),
\* part_003:106-129 (getAllBlocks, publishArticle, pages.update)
RevStages(r) ==
  IF r = "part_001" THEN <<"fetch", "cover", "publish", "update">>
  ELSE <<"fetch", "publish", "update">>

\* the title of the article: part_001:243 `... || 'Untitled'`,
\* part_003:104 the optional chain, undefined when a link of it is missing
ArticleTitle(r, t) ==
  IF t = "text" THEN "text"
  ELSE IF r = "part_001" THEN "Untitled" ELSE "undefined"

\* the stage after stage st of revision r ("doc": the loop goes on)
RevAfter(r, st) ==
  LET sq == RevStages(r)
      k == CHOOSE i \in 1..Len(sq) : sq[i] = st
  IN  IF k < Len(sq) THEN sq[k + 1] ELSE "doc"

\* the query has answered with the documents 1..MaxDocs
InitRevs ==
  /\ rev \in {"part_001", "part_003"}
  /\ vtitle \in [Docs -> Titles]
  /\ vpc = "doc"
  /\ vidx = 1
  /\ vcount = 0
  /\ vfails = 0
  /\ vcalls = <<>>

\* part_001:241-246, part_003:102-107: the title is read and logged, and
\* getAllBlocks(page.id) is called whatever the title is
RevTake ==
  /\ vpc = "doc"
  /\ vidx <= MaxDocs
  /\ vpc' = RevStages(rev)[1]
  /\ UNCHANGED <<rev, vtitle, vidx, vcount, vfails, vcalls>>

\* the remote call in progress succeeds; after pages.update the document is
\* counted (part_003:131) and the loop goes on
RevStageOk ==
  /\ vpc \in DocStages
  /\ vcalls' = Append(vcalls, <<vidx, vpc>>)
  /\ vpc' = RevAfter(rev, vpc)
  /\ vidx' = IF RevAfter(rev, vpc) = "doc" THEN vidx + 1 ELSE vidx
  /\ vcount' = IF RevAfter(rev, vpc) = "doc" THEN vcount + 1 ELSE vcount
  /\ vfails' = 0
  /\ UNCHANGED <<rev, vtitle>>

\* an attempt of the remote call in progress fails: retry, given the policy
\* object as `times`, sleeps and calls again
RevAttemptFails ==
  /\ vpc \in DocStages
  /\ vfails < MaxFails
  /\ vfails' = vfails + 1
  /\ UNCHANGED <<rev, vtitle, vpc, vidx, vcount, vcalls>>

\* the for loop is over
RevDone ==
  /\ vpc = "doc"
  /\ vidx > MaxDocs
  /\ vpc' = "done"
  /\ UNCHANGED <<rev, vtitle, vidx, vcount, vfails, vcalls>>

NextRevs ==
  \/ RevTake /\ UNCHANGED outsideRevs
  \/ RevStageOk /\ UNCHANGED outsideRevs
  \/ RevAttemptFails /\ UNCHANGED outsideRevs
  \/ RevDone /\ UNCHANGED outsideRevs

IdleRevs ==
  /\ rev = "none"
  /\ vtitle = [d \in Docs |-> "text"]
  /\ vpc = "idle"
  /\ vidx = 1
  /\ vcount = 0
  /\ vfails = 0
  /\ vcalls = <<>>

(***************************************************************************)
(* The server, src/index.js: startSyncSchedule (30-36), started by         *)
(* app.listen (40-43), and the handler of POST /sync (19-27) both call     *)
(* initSync(); the runs they start work on the same source.                *)
(***************************************************************************)
MaxActive == 2
MaxSchedDocs == 2
MaxPubs == 2

\* the runs of initSync that may be in progress at a time
Slots == 1..MaxActive
SchedDocs == 1..MaxSchedDocs

\* a changed AfterInvoke: the invocation sets no timer
AfterInvokeUnset == "unset"

\* index.js:35: setTimeout(startSyncSchedule, config.sync.interval), reached
\* in every invocation, whatever becomes of the promise of initSync()
AfterInvoke == "armed"

\* the slots without a run
FreeSlots == {r \in Slots : kpc[r] = "free"}

\* initSync() is called (sync.js:352-356): a run starts with its query
StartedRun(from) ==
  IF FreeSlots = {}
    THEN UNCHANGED <<kpc, rorigin>>
    ELSE LET r == CHOOSE q \in FreeSlots : \A p \in FreeSlots : q <= p
         IN  /\ kpc' = [kpc EXCEPT ![r] = "query"]
             /\ rorigin' = [rorigin EXCEPT ![r] = from]

\* the next document of the for loop of run r over the documents L, or the
\* end of the run
NextOf(r, L) ==
  IF L = {}
    THEN /\ kpc' = [kpc EXCEPT ![r] = "free"]
         /\ rorigin' = [rorigin EXCEPT ![r] = "none"]
         /\ rdoc' = [rdoc EXCEPT ![r] = 0]
         /\ rlist' = [rlist EXCEPT ![r] = {}]
    ELSE LET d == CHOOSE x \in L : \A y \in L : x <= y
         IN  /\ kpc' = [kpc EXCEPT ![r] = "publish"]
             /\ rdoc' = [rdoc EXCEPT ![r] = d]
             /\ rlist' = [rlist EXCEPT ![r] = L \ {d}]
             /\ UNCHANGED rorigin

\* app.listen has called back (index.js:40-43); no run yet
InitSched ==
  /\ timer = "start"
  /\ kpc = [r \in Slots |-> "free"]
  /\ rorigin = [r \in Slots |-> "none"]
  /\ rdoc = [r \in Slots |-> 0]
  /\ rlist = [r \in Slots |-> {}]
  /\ rfailed = [r \in Slots |-> FALSE]
  /\ ksynced \in [SchedDocs -> BOOLEAN]
  /\ pubs = [d \in SchedDocs |-> 0]

\* index.js:30-36: initSync() is called without await, a catch is attached
\* to its promise, and the timer is set
startSyncSchedule ==
  /\ timer \in {"start", "fired"}
  /\ StartedRun("schedule")
  /\ timer' = AfterInvoke
  /\ UNCHANGED <<rdoc, rlist, rfailed, ksynced, pubs>>

\* config.sync.interval has passed
TimerFires ==
  /\ timer = "armed"
  /\ timer' = "fired"
  /\ UNCHANGED <<kpc, rorigin, rdoc, rlist, rfailed, ksynced, pubs>>

\* index.js:19-21: a POST /sync request arrives and the handler calls initSync()
ManualSync ==
  /\ FreeSlots # {}
  /\ StartedRun("manual")
  /\ UNCHANGED <<timer, rdoc, rlist, rfailed, ksynced, pubs>>

\* sync.js:360-403: the query of run r answers with the documents whose
\* checkpoint is not set
RunQueryOk(r) ==
  /\ kpc[r] = "query"
  /\ NextOf(r, {d \in SchedDocs : ~ksynced[d]})
  /\ UNCHANGED <<timer, rfailed, ksynced, pubs>>

\* sync.js:462-466: the tree is fetched and publishArticle returns
RunPublishOk(r) ==
  /\ kpc[r] = "publish"
  /\ pubs' = [pubs EXCEPT ![rdoc[r]] = Min(@ + 1, MaxPubs)]
  /\ kpc' = [kpc EXCEPT ![r] = "update"]
  /\ UNCHANGED <<timer, rorigin, rdoc, rlist, rfailed, ksynced>>

\* sync.js:469-487: an attempt of notion.pages.update fails; retry, given
\* the policy object as `times`, sleeps and calls again
RunUpdateFails(r) ==
  /\ kpc[r] = "update"
  /\ ~rfailed[r]
  /\ rfailed' = [rfailed EXCEPT ![r] = TRUE]
  /\ UNCHANGED <<timer, kpc, rorigin, rdoc, rlist, ksynced, pubs>>

\* sync.js:469-505: notion.pages.update succeeds; the loop goes on
RunUpdateOk(r) ==
  /\ kpc[r] = "update"
  /\ ksynced' = [ksynced EXCEPT ![rdoc[r]] = TRUE]
  /\ rfailed' = [rfailed EXCEPT ![r] = FALSE]
  /\ NextOf(r, rlist[r])
  /\ UNCHANGED <<timer, pubs>>

NextSched ==
  \/ startSyncSchedule /\ UNCHANGED outsideSched
  \/ TimerFires /\ UNCHANGED outsideSched
  \/ ManualSync /\ UNCHANGED outsideSched
  \/ \E r \in Slots : RunQueryOk(r) /\ UNCHANGED outsideSched
  \/ \E r \in Slots : RunPublishOk(r) /\ UNCHANGED outsideSched
  \/ \E r \in Slots : RunUpdateFails(r) /\ UNCHANGED outsideSched
  \/ \E r \in Slots : RunUpdateOk(r) /\ UNCHANGED outsideSched

\* the server is not started
IdleSched ==
  /\ timer = "unset"
  /\ kpc = [r \in Slots |-> "free"]
  /\ rorigin = [r \in Slots |-> "none"]
  /\ rdoc = [r \in Slots |-> 0]
  /\ rlist = [r \in Slots |-> {}]
  /\ rfailed = [r \in Slots |-> FALSE]
  /\ ksynced = [d \in SchedDocs |-> FALSE]
  /\ pubs = [d \in SchedDocs |-> 0]

(***************************************************************************)
(* Specifications                                                          *)
(***************************************************************************)
\* runs of initSync
Init ==
  InitSync /\ IdleRetry /\ IdleMedia /\ IdleRender /\ IdleText /\ IdleHttp /\ IdleTree /\ IdleImages /\ IdleRevs /\ IdleSched
Spec == Init /\ [][Next]_vars

InitTreeSpec ==
  InitTree /\ IdleRetry /\ IdleSync /\ IdleMedia /\ IdleRender /\ IdleText /\ IdleHttp /\ IdleImages /\ IdleRevs /\ IdleSched
SpecTree == InitTreeSpec /\ [][NextTree]_vars

\* initSync called by the handler of POST /sync and by the schedule
SpecHttp == Init /\ [][NextHttp]_vars

\* initSync where every step that can be taken is taken in the end: a remote
\* call in progress returns or fails, a sleep of retry ends
FairSpec == Init /\ [][Next]_vars /\ WF_vars(Next)

\* one call of retry
InitRetrySpec ==
  InitRetry /\ IdleSync /\ IdleMedia /\ IdleRender /\ IdleText /\ IdleHttp /\ IdleTree /\ IdleImages /\ IdleRevs /\ IdleSched
SpecRetry == InitRetrySpec /\ [][NextRetry]_vars

\* one call of the media relay
InitMediaSpec ==
  InitMedia /\ IdleRetry /\ IdleSync /\ IdleRender /\ IdleText /\ IdleHttp /\ IdleTree /\ IdleImages /\ IdleRevs /\ IdleSched
SpecMedia == InitMediaSpec /\ [][NextMedia]_vars

\* one call of convertContent
InitRenderSpec ==
  InitRender /\ IdleRetry /\ IdleSync /\ IdleMedia /\ IdleText /\ IdleHttp /\ IdleTree /\ IdleImages /\ IdleRevs /\ IdleSched
SpecRender == InitRenderSpec /\ [][NextRender]_vars

\* one call of richTextToHtml
\* calls of convertContent of src/sync.js
InitImagesSpec ==
  InitImages /\ IdleRetry /\ IdleSync /\ IdleMedia /\ IdleRender /\ IdleText /\ IdleHttp /\ IdleTree /\ IdleRevs /\ IdleSched
SpecImages == InitImagesSpec /\ [][NextImages]_vars

\* runs of the page loop of part_001 and part_003
InitRevsSpec ==
  InitRevs /\ IdleRetry /\ IdleSync /\ IdleMedia /\ IdleRender /\ IdleText /\ IdleHttp /\ IdleTree /\ IdleImages /\ IdleSched
SpecRevs == InitRevsSpec /\ [][NextRevs]_vars

\* the server: the schedule, the manual trigger and their runs
InitSchedSpec ==
  InitSched /\ IdleRetry /\ IdleSync /\ IdleMedia /\ IdleRender /\ IdleText /\ IdleHttp /\ IdleTree /\ IdleImages /\ IdleRevs
SpecSched == InitSchedSpec /\ [][NextSched]_vars

\* the same, where a timer that is due fires and a callback that is due runs
FairSched ==
  /\ InitSchedSpec
  /\ [][NextSched]_vars
  /\ WF_vars(TimerFires /\ UNCHANGED outsideSched)
  /\ WF_vars(startSyncSchedule /\ UNCHANGED outsideSched)

InitTextSpec ==
  InitText /\ IdleRetry /\ IdleSync /\ IdleMedia /\ IdleRender /\ IdleHttp /\ IdleTree /\ IdleImages /\ IdleRevs /\ IdleSched
SpecText == InitTextSpec /\ [][NextText]_vars

(***************************************************************************)
(* Properties of retry                                                     *)
(***************************************************************************)
\* the attempt ceiling of a policy: the first attempt and its retries
AttemptCeiling(p) == p.retries + 1

RECURSIVE Pow(_, _)
Pow(b, e) == IF e = 0 THEN 1 ELSE b * Pow(b, e - 1)

\* the delay the policy prescribes after the k-th failed attempt
PolicyDelay(p, k) == Min(p.maxTimeout, p.minTimeout * Pow(p.factor, k - 1))

\* C1 (backoff termination): called with a policy object, retry invokes an
\* operation that fails on every call no more often than the policy's
\* attempt ceiling, and after the last allowed failure it does not sleep
\* for another attempt.
C1_BackoffTermination ==
  policy # NoPolicy =>
    /\ calls <= AttemptCeiling(policy)
    /\ rpc = "sleeping" => lastErr < AttemptCeiling(policy)

\* C2 (backoff delay bound): called with a policy object, the sleep after
\* the k-th failed attempt is min(maxTimeout, minTimeout * factor^(k-1)),
\* hence within [minTimeout, maxTimeout].
C2_BackoffDelayBound ==
  policy # NoPolicy =>
    \A k \in 1..Len(sleeps) :
      /\ sleeps[k] = PolicyDelay(policy, k)
      /\ sleeps[k] >= policy.minTimeout
      /\ sleeps[k] <= policy.maxTimeout

(***************************************************************************)
(* Properties of initSync                                                  *)
(***************************************************************************)
\* C3 (isolation): a document one of whose remote calls has failed on every
\* attempt its policy allows is given up and the batch goes on: the run is
\* no longer at that call of that document.
C3_Isolation ==
  pc \in DocStages => fails <= AttemptCeiling(StagePolicy(pc))

C5_Idempotence ==
  /\ (published \cup updateIssued \cup checkpointed) \cap processedBefore = {}
  /\ \A i \in 1..Len(visited) : visited[i] \notin processedBefore

C5_Witness ==
  /\ run = 2
  /\ pc = "done"
  /\ Cardinality(processedBefore) >= 2
  /\ \E d \in Docs : ~synced[d]

RECURSIVE Flat(_)
\* the results of a sequence of responses, flattened in page order
Flat(as) == IF as = <<>> THEN <<>> ELSE as[1].results \o Flat(Tail(as))

\* C6 (pagination exhaustion): the first query carries no cursor, every
\* further query follows a response with has_more and carries its
\* next_cursor, the documents are taken up once each in page order, and the
\* run ends only after a response without has_more, all documents visited.
C6_PaginationExhaustion ==
  /\ Len(queries) = Len(answers)
  /\ queries # <<>> => queries[1] = 0
  /\ \A i \in 2..Len(queries) :
       answers[i - 1].has_more /\ queries[i] = answers[i - 1].next_cursor
  /\ Len(visited) <= Len(Flat(answers))
  /\ visited = SubSeq(Flat(answers), 1, Len(visited))
  /\ \A i, j \in 1..Len(visited) : visited[i] = visited[j] => i = j
  /\ pc = "done" =>
       /\ answers # <<>>
       /\ ~answers[Len(answers)].has_more
       /\ visited = Flat(answers)

C6_Witness ==
  /\ pc = "done"
  /\ Len(queries) = 3
  /\ Len(visited) = 3

(***************************************************************************)
(* Further properties of initSync                                          *)
(***************************************************************************)
\* C11 (run-level fatal error): the listing call of initSync does not fail
\* more often than its policy allows without initSync rejecting, so the run
\* is not at the listing call after more failed attempts than that.
C11_RunLevelFatal ==
  pc = "query" => fails <= AttemptCeiling(retryConfig)

\* C12 (manual trigger response): when the handler of POST /sync has
\* answered, the answer is the error status with the failure message if
\* initSync threw, and otherwise the success status with the count of
\* processed documents in its body.
C12_ManualTriggerResponse ==
  hpc = "answered" =>
    IF pc = "thrown"
      THEN res.status = 500 /\ res.body = <<"err.message">>
      ELSE /\ res.status = 200
           /\ \E i \in 1..Len(res.body) : res.body[i] = ToString(processedCount)

\* getAllBlocks returns complete trees only: every block listed under the
\* root, at any depth, has all its children listed and its own call returned
NoPartialTree ==
  gpc[0] = "returned" =>
    \A n \in Nodes :
      /\ allBlocks[n] = tree[n]
      /\ HasChildren(n) => gpc[n] = "returned"

\* C13 (no partial trees): getAllBlocks returns complete trees only, and a
\* listing call that has failed on every attempt its policy allows makes
\* getAllBlocks of the root reject.
C13_NoPartialTrees ==
  /\ NoPartialTree
  /\ \A n \in Nodes : gfails[n] > AttemptCeiling(retryConfig) => gpc[0] = "rejected"

\* C14 (run termination): every run of initSync that has started ends, by
\* returning or by throwing.
C14_RunTermination ==
  [](pc = "query" => <>(pc \in {"done", "thrown"}))

\* the documents whose turn in the for loop has begun and not ended
InPipeline == {visited[i] : i \in 1..Len(visited)} \ finished

\* C15 (sequential documents): at most one document of a run is in its
\* pipeline; while the run is in a pipeline stage it is the document taken
\* up last, and when the loop takes up a document, lists or ends, the turn
\* of every document taken up before has ended.
C15_SequentialDocuments ==
  /\ Cardinality(InPipeline) <= 1
  /\ pc \in DocStages => InPipeline = {page}
  /\ pc \in {"query", "doc", "done"} => InPipeline = {}

C15_Witness ==
  /\ pc = "fetch"
  /\ Len(visited) = 3
  /\ Cardinality(finished) = 2
  /\ checkpointed # {}

\* the order of the steps of a document's pipeline
PipelineOrder == <<"fetch", "render", "cover", "publish", "update">>

\* the fields of the argument of the publish call, sync.js:283-286:
\* createWXAQRCode({ path, width })
PublishArgs == {"path", "width"}

\* the rendered markup and the relayed cover reference in a publish payload
PayloadFields == {"content", "thumb_media_id"}

\* C19 (pipeline order per document): a document whose checkpoint update
\* has succeeded went through tree fetch, rendering, cover relay, publish
\* and update in this order, none skipped, and the publish call carried the
\* rendered markup and the cover reference.
C19_PipelineOrder ==
  steps # <<>> /\ steps[Len(steps)] = "update" =>
    /\ steps = PipelineOrder
    /\ PayloadFields \subseteq PublishArgs

\* C20 (a publish error code is a failure): a document whose publish call
\* was answered with a non-zero error code does not go on to the checkpoint
\* update.
C20_PublishErrorCode ==
  errCode # 0 =>
    /\ pc # "update"
    /\ steps = <<>> \/ steps[Len(steps)] # "update"

(***************************************************************************)
(* Further properties of retry                                             *)
(***************************************************************************)
\* C16 (success path of retry): when retry has returned, the value is the
\* one of the last invocation of fn (so fn was not invoked after the
\* success), and the sleeps are exactly one per earlier, failed invocation.
C16_SuccessPath ==
  rpc = "returned" =>
    /\ result = calls
    /\ lastErr = calls - 1
    /\ Len(sleeps) = calls - 1

C16_Witness ==
  /\ rpc = "returned"
  /\ calls = 3
  /\ result = 3
  /\ Len(sleeps) = 2

\* the policy objects that carry an onRetry callback (part_003:11-13)
CarriesOnRetry(p) == p = retryConfig

\* how often retry has invoked times.onRetry after `failed` failed attempts:
\* part_008:18-21 reads no field of `times` and calls nothing but fn and
\* setTimeout
OnRetryCalls(failed) == 0

\* C17 (retry observer): when the backoff sleep after a failed attempt
\* starts, the onRetry callback of the policy has been invoked once for
\* every failed attempt so far.
C17_RetryObserver ==
  CarriesOnRetry(policy) /\ rpc = "sleeping" => OnRetryCalls(lastErr) = lastErr

\* C18 (numeric retry): retry(fn, times, delay) with a number `times`
\* invokes fn at most times + 1 times, sleeps delay, 2 delay, 4 delay, ...
\* between the attempts, and rejects, after times + 1 failures, with the
\* error of the last attempt.
C18_NumericRetry ==
  policy = NoPolicy /\ rpc # "idle" =>
    /\ calls <= args.times.v + 1
    /\ Len(sleeps) <= args.times.v
    /\ \A k \in 1..Len(sleeps) : sleeps[k] = args.delay * Pow(2, k - 1)
    /\ rpc = "rejected" =>
         /\ calls = args.times.v + 1
         /\ Len(sleeps) = args.times.v
         /\ result = calls
         /\ lastErr = calls

C18_Witness ==
  /\ policy = NoPolicy
  /\ rpc = "rejected"
  /\ args = [times |-> Num(DefaultTimes), delay |-> DefaultDelay]
  /\ calls = 4
  /\ result = 4
  /\ sleeps = <<1000, 2000, 4000>>

(***************************************************************************)
(* Properties of the media relay                                           *)
(***************************************************************************)
\* the policy object the relay function passes to retry
RelayPolicy(f) == IF f = "uploadMedia" THEN mediaRetryConfig ELSE wechatRetryConfig

\* C7 (the relay never fails outward): the relay function never throws, and
\* once an operation of it has failed on every attempt its policy allows
\* the relay has returned the fallback reference.
C7_NeverFailsOutward ==
  /\ mpc # "thrown"
  /\ mfails > AttemptCeiling(RelayPolicy(fn)) =>
       mpc = "returned" /\ mresult = "fallback"

\* downloadMedia hands over no buffer of more than Ceiling bytes
BufferWithinCeiling == buffer <= Ceiling

\* C8 (size ceiling): downloadMedia returns no buffer of a transfer that
\* exceeded the ceiling, and once every download attempt the policy allows
\* has exceeded it, uploadMedia has returned the fallback reference without
\* an upload.
C8_SizeCeiling ==
  /\ BufferWithinCeiling
  /\ fn = "uploadMedia" /\ oversize > AttemptCeiling(mediaRetryConfig) =>
       mpc = "returned" /\ mresult = "fallback" /\ uploads = 0

(***************************************************************************)
(* Properties of the renderer                                              *)
(***************************************************************************)
RECURSIVE BalancedFrom(_, _, _)
\* the list containers of h[i..] are closed by the tag of their own kind,
\* given the containers open so far
BalancedFrom(h, i, open) ==
  IF i > Len(h) THEN open = <<>>
  ELSE CASE h[i] \in {"<ul>", "<ol>"} -> BalancedFrom(h, i + 1, <<h[i]>> \o open)
         [] h[i] = "</ul>" ->
              open # <<>> /\ Head(open) = "<ul>" /\ BalancedFrom(h, i + 1, Tail(open))
         [] h[i] = "</ol>" ->
              open # <<>> /\ Head(open) = "<ol>" /\ BalancedFrom(h, i + 1, Tail(open))
         [] OTHER -> BalancedFrom(h, i + 1, open)

Balanced(h) == BalancedFrom(h, 1, <<>>)

\* [bulleted A, bulleted B, paragraph C, numbered D]
ExampleBlocks ==
  <<Leaf("bulleted_list_item", "A"), Leaf("bulleted_list_item", "B"),
    Leaf("paragraph", "C"), Leaf("numbered_list_item", "D")>>

\* <ul><li>A</li><li>B</li></ul><p>C</p><ol><li>D</li></ol>
ExampleHtml ==
  <<"<ul>", "<li>", "A", "</li>", "<li>", "B", "</li>", "</ul>",
    "<p>", "C", "</p>", "<ol>", "<li>", "D", "</li>", "</ol>">>

\* C9 (list grouping): the markup convertContent returns has balanced list
\* containers, each closed by the closing tag of its own kind, and the
\* example sequence renders as the example markup.
C9_ListGrouping ==
  cpc = "done" =>
    /\ Balanced(html)
    /\ Balanced(htmlP1)
    /\ blocks = ExampleBlocks => html = ExampleHtml /\ htmlP1 = ExampleHtml

\* the style wrappers from the outermost to the innermost
StyleOrder == <<"code", "underline", "strikethrough", "italic", "bold">>

OpenTag(style) ==
  CASE style = "bold" -> "<strong>"
    [] style = "italic" -> "<em>"
    [] style = "strikethrough" -> "<del>"
    [] style = "underline" -> "<u>"
    [] style = "code" -> "<code>"

CloseTag(style) ==
  CASE style = "bold" -> "</strong>"
    [] style = "italic" -> "</em>"
    [] style = "strikethrough" -> "</del>"
    [] style = "underline" -> "</u>"
    [] style = "code" -> "</code>"

\* the styles of a run in nesting order, outermost first
Nesting(text) == SelectSeq(StyleOrder, LAMBDA st : st \in text.annotations)

Reverse(q) == [i \in 1..Len(q) |-> q[Len(q) + 1 - i]]

\* the markup of one run: anchor, style wrappers in StyleOrder, the text,
\* and the closing tags in the opposite order
RunMarkup(text) ==
  LET nest == Nesting(text)
      opens == [i \in 1..Len(nest) |-> OpenTag(nest[i])]
      closes == [i \in 1..Len(nest) |-> CloseTag(Reverse(nest)[i])]
      inner == opens \o <<text.plain_text>> \o closes
  IN  IF text.href # "" THEN <<AnchorOpen(text.href)>> \o inner \o <<"</a>">> ELSE inner

RECURSIVE RunsMarkup(_, _)
\* the markup of runs i.. of rt, one after the other
RunsMarkup(rt, i) ==
  IF i > Len(rt) THEN <<>> ELSE RunMarkup(rt[i]) \o RunsMarkup(rt, i + 1)

\* C10 (rich-text composition): richTextToHtml returns the runs in input
\* order with nothing between them, each run wrapped by its styles in the
\* one order code, u, del, em, strong (outermost first) and, when it has an
\* href, by the link anchor outside all of them.
C10_RichTextComposition ==
  tpc = "done" => content = RunsMarkup(richText, 1)

C10_Witness ==
  /\ tpc = "done"
  /\ Len(richText) = 2
  /\ richText[1].annotations = {"bold", "italic"}
  /\ richText[1].href = "u"
  /\ richText[2].annotations = Styles
  /\ content = <<"<a href=u target=_blank>", "<em>", "<strong>", "A", "</strong>",
                 "</em>", "</a>", "<code>", "<u>", "<del>", "<em>", "<strong>",
                 "B", "</strong>", "</em>", "</del>", "</u>", "</code>">>

(***************************************************************************)
(* Further properties of the renderer                                      *)
(***************************************************************************)
\* the list items of a block sequence, in order
ListBlocks(bs) == SelectSeq(bs, LAMBDA b : b.type \in ListItems)

\* the positions of the <li> tags of h, in order
LiPositions(h) == SelectSeq([i \in 1..Len(h) |-> i], LAMBDA i : h[i] = "<li>")

\* the list container opened last before position i of h ("" if none)
OpenBefore(h, i) ==
  LET opens == {j \in 1..i : h[j] \in {"<ul>", "<ol>"}}
  IN  IF opens = {} THEN ""
      ELSE h[CHOOSE j \in opens : \A k \in opens : k <= j]

\* the container of a list item kind
ContainerOf(kind) == IF kind = "bulleted_list_item" THEN "<ul>" ELSE "<ol>"

\* every <li> of h follows an opening tag of the kind of its block
ItemsInOwnContainer(bs, h) ==
  LET items == ListBlocks(bs)
      pos == LiPositions(h)
  IN  /\ Len(pos) = Len(items)
      /\ \A k \in 1..Len(pos) : OpenBefore(h, pos[k]) = ContainerOf(items[k].type)

NoChildren(bs) == \A i \in 1..Len(bs) : ~bs[i].has_children

\* C21 (adjacent list kinds): in the markup of a sequence of blocks without
\* children every <li> stands in a container of the kind of its block, also
\* where a numbered item directly follows a bulleted one or the reverse.
C21_AdjacentListKinds ==
  cpc = "done" /\ NoChildren(blocks) =>
    /\ ItemsInOwnContainer(blocks, html)
    /\ ItemsInOwnContainer(blocks, htmlP1)

\* block b cannot be rendered: its data make the switch throw, or the
\* transfer of its image fails
RenderFails(b) == b.fault = "malformed" \/ (b.type = "image" /\ b.relay # "ok")

RECURSIVE HasListingFault(_)
\* the children of some block of bs, at any depth, cannot be listed
HasListingFault(bs) ==
  \E i \in 1..Len(bs) :
    bs[i].fault = "children" \/ HasListingFault(bs[i].children)

\* C22 (node-level render degradation): once convertContent has been called
\* on blocks of which one cannot be rendered, and no listing of children
\* fails, no revision of convertContent has thrown.
C22_NodeLevelDegradation ==
  /\ cpc = "done"
  /\ \E i \in 1..Len(blocks) : RenderFails(blocks[i])
  /\ ~HasListingFault(blocks)
  => threw = {}

\* C23 (child-fetch failure aborts rendering): when the listing of the
\* children of a block fails, at any depth, convertContent of part_006 and
\* of part_002 reject and return no markup, and the document is never
\* published: the per-document boundary skips it.
C23_ChildFetchAborts ==
  cpc \in {"done", "published", "skipped"} /\ HasListingFault(blocks)
  => /\ threw = {"part_006", "part_002"}
     /\ html = <<>>
     /\ htmlP2 = <<>>
     /\ cpc # "published"

\* a document with two blocks, the second of which has a child whose own
\* children cannot be listed, has been skipped
C23_Witness ==
  /\ cpc = "skipped"
  /\ Len(blocks) = 2
  /\ blocks[2].fault = "none" /\ blocks[2].has_children
  /\ HasListingFault(blocks[2].children)

\* C24 (no source URL in output): in the content convertContent of
\* src/sync.js returns, no <img> has the address of an image of the document
\* as its source.
C24_NoSourceUrl ==
  ipc = "returned" =>
    \A j \in 1..(Len(imgHtml) - 1) :
      imgHtml[j] = "<img src=" => imgHtml[j + 1] \notin Urls

\* C25 (children invariant): in the tree getAllBlocks of the page has
\* returned, a block has its children set exactly when has_children was true
\* in the listing, and they are all the children the source has for the
\* block, in all their pages.
C25_ChildrenInvariant ==
  gpc[0] = "returned" =>
    \A n \in 1..MaxNodes :
      /\ children[n].set <=> HasChildren(n)
      /\ children[n].set => children[n].v = tree[n]

\* the tree has been returned; in it one block has two children or more and
\* another block has none
C25_Witness ==
  /\ gpc[0] = "returned"
  /\ \E n \in 1..MaxNodes : children[n].set /\ Len(children[n].v) >= 2
  /\ \E n \in 1..MaxNodes : ~children[n].set /\ ~HasChildren(n)

RECURSIVE Listed(_)
RECURSIVE ListedFrom(_, _)
\* the blocks under n in the order of the listing responses: every block
\* followed by the blocks under it
Listed(n) == ListedFrom(tree[n], 1)
ListedFrom(g, i) ==
  IF i > Len(g) THEN <<>> ELSE <<g[i]>> \o Listed(g[i]) \o ListedFrom(g, i + 1)

RECURSIVE ReturnedFrom(_, _)
\* the blocks of the returned sequence g from position i on, every block
\* followed by the blocks of its children sequence
ReturnedFrom(g, i) ==
  IF i > Len(g) THEN <<>>
  ELSE <<g[i]>>
         \o (IF children[g[i]].set THEN ReturnedFrom(children[g[i]].v, 1) ELSE <<>>)
         \o ReturnedFrom(g, i + 1)

\* C26 (order independent of fetch completion): whatever the order in which
\* the concurrent getAllBlocks calls returned, the tree returned for the page
\* lists the blocks in the order of the listing responses, every children
\* sequence under the block it was fetched for.
C26_OrderOfListing ==
  gpc[0] = "returned" => ReturnedFrom(allBlocks[0], 1) = Listed(0)

\* the tree has been returned, and of two blocks of the page that have
\* children the later one had its children returned first
C26_Witness ==
  /\ gpc[0] = "returned"
  /\ \E i, j \in 1..Len(tree[0]) : \E a, b \in 1..Len(completed) :
       /\ i < j /\ b < a
       /\ completed[a] = tree[0][i]
       /\ completed[b] = tree[0][j]

\* C27 (independent download and upload retries): once a relay call has its
\* downloaded bytes and is at the upload, no step takes it back to the
\* download.
C27_IndependentRetries ==
  [][(mpc \in {"upload", "imgupload"}) => (mpc' \notin {"download", "imgdownload"})]_vars

\* C28 (validation errors are not retried): once the downloaded media has
\* been rejected by validation, no further download or upload request is
\* issued in the relay call.
C28_ValidationNotRetried ==
  [][validation = "rejected" => (downloads' = downloads /\ uploads' = uploads)]_vars

\* C29 (missing title skips the document entirely): in the revisions
\* part_001 and part_003 no remote call is made for a document without a
\* title property or with an empty title, and such documents are not counted.
C29_MissingTitleSkipped ==
  /\ \A k \in 1..Len(vcalls) : vtitle[vcalls[k][1]] = "text"
  /\ vcount <= Cardinality({d \in Docs : vtitle[d] = "text"})

\* C30 (rate-limit delays): every document whose turn in the page loop of
\* initSync has ended, processed, skipped or failed, has had the
\* inter-document delay awaited after it.
C30_RateLimitDelays ==
  \A d \in finished : d \in delayed

\* C31 (block pagination): getAllBlocks of a block returns the pages of its
\* children concatenated in page order, it suspends for the inter-page delay
\* between every two consecutive pages, and the last thing it does before it
\* returns is to take a page that reports no more results.
C31_BlockPagination ==
  \A n \in Nodes :
    /\ \A i \in 1..(Len(glog[n]) - 1) :
         glog[n][i] = "page" => glog[n][i + 1] = "delay"
    /\ gpc[n] = "returned" =>
         /\ allBlocks[n] = tree[n]
         /\ glog[n] # <<>> /\ glog[n][Len(glog[n])] = "page"

\* C32 (source update frame): the checkpoint update is issued only for a
\* document that has a title and whose publish call has just succeeded: it
\* is among the published ones and the platform did not answer its publish
\* call with an error code.
C32_SourceUpdateFrame ==
  /\ updateIssued \subseteq published
  /\ \A d \in updateIssued : title[d] = "text"
  /\ visited # <<>> /\ visited[Len(visited)] \in updateIssued => errCode = 0

RECURSIVE Parents(_)
\* the number of blocks of bs, at any depth, that have children
Parents(bs) ==
  IF bs = <<>> THEN 0
  ELSE (IF Head(bs).has_children THEN 1 + Parents(Head(bs).children) ELSE 0)
         + Parents(Tail(bs))

\* the number of tokens t in the markup h
CountToken(h, t) == Cardinality({i \in 1..Len(h) : h[i] = t})

\* C34 (nested children rendering): in the markup convertContent returns,
\* of part_006 and of part_002, the children of every block that has
\* children are wrapped in one indentation container: the markup has as
\* many containers, opened and closed, as the blocks have parents.
C34_NestedChildren ==
  cpc = "done" /\ threw = {} =>
    /\ CountToken(html, "<div>") = Parents(blocks)
    /\ CountToken(html, "</div>") = Parents(blocks)
    /\ CountToken(htmlP2, "<div>") = Parents(blocks)
    /\ CountToken(htmlP2, "</div>") = Parents(blocks)

\* C35 (processed count): processedCount is the number of documents whose
\* checkpoint update has succeeded in the run, and a document that is
\* counted is one whose publish call did not fail.
C35_ProcessedCount ==
  /\ processedCount = Cardinality(checkpointed)
  /\ visited # <<>> /\ visited[Len(visited)] \in checkpointed => errCode = 0

C36_AtMostOncePublish ==
  \A d \in SchedDocs : pubs[d] <= 1

\* C37 (no overlapping runs): at most one run of initSync is in progress.
C37_NoOverlappingRuns ==
  Cardinality({r \in Slots : kpc[r] # "free"}) <= 1

\* getAllBlocks of the page never rejects: retry, given the policy object as
\* `times`, never gives a listing call up
RootNeverRejects == gpc[0] # "rejected"

\* C38 (quiescence after a failed tree fetch): once getAllBlocks of the page
\* has rejected, no listing call for a block under the page is in progress
\* or waited for.
C38_Quiescence ==
  gpc[0] = "rejected" => \A n \in Nodes : gpc[n] \notin {"listing", "joining"}

====
